---- MODULE Spec2Model ----
(***************************************************************************)
(* LamPyrid: the bulk operations of TransactionService                     *)
(* (src/src/lampyrid/services/transactions.py) run against a ledger whose  *)
(* remote calls succeed or fail nondeterministically.                      *)
(*                                                                         *)
(* One bulk operation is followed from its start to its return or raise.   *)
(* Every remote call the service issues is appended to `calls` together    *)
(* with the answer the ledger gave, and `ledger` holds the transactions    *)
(* that exist remotely.                                                    *)
(***************************************************************************)
EXTENDS Integers, Sequences, FiniteSets, TLC

\* ---------------------------------------------------------------- bounds
\* longest request that is explored
MaxN == 3
\* ids of transactions that may exist on the ledger beforehand
ExistingIds == {11, 12}
\* ids an update request may name (13 never exists)
UpdateIds == {11, 12, 13}

\* calls in flight beyond which the exploration stops
MaxInflight == 2
\* texts have at most MaxStrLen characters
MaxStrLen == 2
\* a search request fills at most MaxFields filter fields, or all of them
MaxFields == 2

\* request validation: CreateBulkTransactionsRequest.transactions and
\* BulkUpdateTransactionsRequest.updates have min_length=1
MinLength == 1
\* CreateBulkTransactionsRequest.transactions has max_length=100
MaxLength == 100

\* min_length=1, max_length=100
LengthOk(n) == n >= MinLength /\ n <= MaxLength

\* Python's None (an absent Transaction.id, an absent index)
None == -1

\* ------------------------------------------------ answers of the ledger
\* create_transaction: returns a transaction with an id, returns one whose
\* id is empty (Transaction.id is Optional), or raises
CreateOutcomes == {"ok", "ok_noid", "raise"}
\* delete_transaction: HTTP 204 (True), another success status (False), raises
DeleteOutcomes == {"ok204", "ok_other", "raise"}
\* update_transaction: returns the updated transaction, or raises
UpdateOutcomes == {"ok", "raise"}

VARIABLES
    op,                 \* "none" | "atomic" | "non_atomic" | "update"
    pc,                 \* position of the running coroutine
    transactions,       \* the request: number of items of a bulk create
    updates,            \* the request: sequence of transaction ids to update
    idx,                \* loop index of enumerate(...)
    created,            \* _create_bulk_atomic: created
    created_ids,        \* _create_bulk_atomic: created_ids
    rb,                 \* position of the rollback loop in created_ids
    e,                  \* the create error caught at line 179
    rollback_failures,  \* _create_bulk_atomic: rollback_failures
    successful,         \* non-atomic create / bulk update: successful
    failed,             \* non-atomic create / bulk update: failed
    returned,           \* the result returned to the caller
    raised,             \* the exception raised to the caller
    calls,              \* every remote call issued, with the ledger's answer
    ledger,             \* keys of the transactions that exist on the ledger
    nextKey,            \* next key the ledger hands out
    waiting,            \* the coroutine is suspended in an await
    inflight,           \* remote calls issued and not yet answered
    request,            \* the request of a single update or of a search
    sent,               \* what that operation handed to the ledger client
    query_parts,        \* search_transactions: the clauses collected
    items,              \* create_bulk_transactions: req.transactions
    stores,             \* the TransactionStore payloads handed to the client
    procs               \* the locals of the coroutines that run concurrently

vars == <<op, pc, transactions, updates, idx, created, created_ids, rb, e,
          rollback_failures, successful, failed, returned, raised, calls,
          ledger, nextKey, waiting, inflight, request, sent, query_parts,
          items, stores, procs>>

\* ------------------------------------------------ optional, typed values
\* an Optional field: Nothing is Python's None, Some(v) holds a value
Nothing == <<>>
Some(v) == <<v>>

\* the values of request fields, tagged with their Python type: a number
\* is in n, a str is in s as the sequence of its characters
Str(chars) == [t |-> "str", n |-> 0, s |-> chars]
Float(x) == [t |-> "float", n |-> x, s |-> <<>>]
IntOf(x) == [t |-> "int", n |-> x, s |-> <<>>]
Date(d) == [t |-> "date", n |-> 0, s |-> <<d>>]

\* bool(value): an empty str and a zero are falsy, a date never is
Truthy(val) ==
    CASE val.t = "str" -> val.s # <<>>
      [] val.t \in {"float", "int"} -> val.n # 0
      [] OTHER -> TRUE

\* str(value) / f'{value}': a whole float is printed with '.0', a date in
\* ISO form, a str as it is
Format(val) ==
    CASE val.t = "float" -> <<ToString(val.n), ".", "0">>
      [] val.t = "int" -> <<ToString(val.n)>>
      [] OTHER -> val.s

\* ------------------------------------------------------------ values
NoError == [kind |-> "none", index |-> None, rolled_back |-> None,
            cause |-> None, rollback_failures |-> <<>>, total |-> None,
            transaction_id |-> None]

NoResult == [kind |-> "none", successful |-> <<>>, failed |-> <<>>,
             total_requested |-> None, total_succeeded |-> None,
             total_failed |-> None]

\* a remote call and the answer it got
Call(o, arg, res, key) == [op |-> o, arg |-> arg, res |-> res, key |-> key]

\* Transaction.from_transaction_single: the transaction the ledger answered
\* with; index is the request position it was created/updated for
TransactionOf(i, key, id) == [index |-> i, key |-> key, id |-> id]

\* BulkOperationError(index=..., transaction_id=..., error=str(e))
BulkOperationError(i, transaction_id, err) ==
    [index |-> i, transaction_id |-> transaction_id, error |-> err]

\* ------------------------------------------------------------ Init
Init ==
    /\ op = "none"
    /\ pc = "idle"
    /\ transactions = 0
    /\ updates = <<>>
    /\ idx = 0
    /\ created = <<>>
    /\ created_ids = <<>>
    /\ rb = 1
    /\ e = None
    /\ rollback_failures = <<>>
    /\ successful = <<>>
    /\ failed = <<>>
    /\ returned = NoResult
    /\ raised = NoError
    /\ calls = <<>>
    /\ ledger \in SUBSET ExistingIds
    /\ nextKey = 1
    /\ waiting = FALSE
    /\ inflight = 0
    /\ request = Nothing
    /\ sent = Nothing
    /\ query_parts = <<>>
    /\ items = <<>>
    /\ stores = <<>>
    /\ procs = <<>>

\* ------------------------------------------------------- Transaction
\* TransactionType (lampyrid_models.py:79-82)
TransactionType == {"withdrawal", "deposit", "transfer"}

\* Optional[str] account references: an id, a name
OptionalIds == {Nothing, Some("1")}
OptionalNames == {Nothing, Some("cash")}

\* Transaction (lampyrid_models.py:85-109): the type and the four account
\* references; every reference is Optional and the class has no validator
Transactions ==
    [type : TransactionType,
     source_id : OptionalIds, destination_id : OptionalIds,
     source_name : OptionalNames, destination_name : OptionalNames]

\* a transfer between two asset accounts given by id
AssetTransfer ==
    [type |-> "transfer", source_id |-> Some("1"),
     destination_id |-> Some("1"), source_name |-> Nothing,
     destination_name |-> Nothing]

\* TransactionSplitStore(type=..., source_id=..., ...): a reference that is
\* not passed is None
TransactionSplitStore(type, source_id, destination_id, source_name, destination_name) ==
    [type |-> type, source_id |-> source_id,
     destination_id |-> destination_id, source_name |-> source_name,
     destination_name |-> destination_name]

\* Transaction.to_transaction_split_store (lampyrid_models.py:144-156)
to_transaction_split_store(t) ==
    TransactionSplitStore(t.type, t.source_id, t.destination_id,
                          t.source_name, t.destination_name)

\* the lists req.transactions is drawn from: up to MaxN transfers, or one
\* transaction of any shape
BulkCreateLists ==
    {[i \in 1..n |-> AssetTransfer] : n \in MinLength..MaxN}
        \cup {<<t>> : t \in Transactions}

\* the ledger creates a transaction under a fresh key
LedgerCreate(l, key) == l \cup {key}

\* the ledger after a delete call for txn_id that was answered with `out`:
\* a 204 removed it, a raise left it, another success status says nothing
LedgerAfterDelete(l, txn_id, out) ==
    CASE out = "ok204" -> {l \ {txn_id}}
      [] out = "raise" -> {l}
      [] OTHER -> {l, l \ {txn_id}}

\* the answers the ledger can give to an update of txn_id: a transaction
\* that does not exist cannot be updated
UpdateAnswers(l, txn_id) ==
    IF txn_id \in l THEN UpdateOutcomes ELSE {"raise"}

\* ======================================================================
\* await: the coroutine issues a remote call and is suspended until the
\* answer is there (transactions.py:174, 184, 219, 380)
\* ======================================================================

\* variant: the rollback loop never gets to its delete
HasNextCallNoRollback ==
    CASE pc = "atomic_loop" -> idx < transactions
      [] pc = "non_atomic_loop" -> idx < transactions
      [] pc = "update_loop" -> idx < Len(updates)
      [] pc = "client_update_loop" -> idx < Len(updates)
      [] pc = "client_create_loop" -> idx < transactions
      [] pc \in {"budget_get", "limits_get"} -> TRUE
      [] OTHER -> FALSE

\* the loop the coroutine is in has a call to issue
HasNextCall ==
    CASE pc = "atomic_loop" -> idx < transactions
      [] pc = "rollback" -> rb <= Len(created_ids)
      [] pc = "non_atomic_loop" -> idx < transactions
      [] pc = "update_loop" -> idx < Len(updates)
      [] pc = "client_update_loop" -> idx < Len(updates)
      [] pc = "client_create_loop" -> idx < transactions
      [] pc \in {"budget_get", "limits_get"} -> TRUE
      [] OTHER -> FALSE

\* variant: the call is started without awaiting it
AwaitNot(w) == FALSE

\* `await self._client....(...)`: the coroutine does not go on before the
\* call has been answered
Await(w) == TRUE

IssueCall ==
    /\ ~waiting
    /\ HasNextCall
    /\ inflight < MaxInflight
    /\ inflight' = inflight + 1
    /\ waiting' = Await(waiting)
    /\ UNCHANGED <<op, pc, transactions, updates, idx, created, created_ids,
                   rb, e, rollback_failures, successful, failed, returned,
                   raised, calls, ledger, nextKey,
                   request, sent, query_parts,
                   items, stores, procs>>

\* ======================================================================
\* create_bulk_transactions (transactions.py:134-157)
\* ======================================================================

\* the caller hands over a validated request; req.atomic selects the path
create_bulk_transactions(atomic, list) ==
    /\ pc = "idle"
    /\ list \in BulkCreateLists
    /\ LengthOk(Len(list))
    /\ op' = IF atomic THEN "atomic" ELSE "non_atomic"
    /\ pc' = IF atomic THEN "atomic_loop" ELSE "non_atomic_loop"
    /\ transactions' = Len(list)
    /\ items' = list
    /\ UNCHANGED <<updates, idx, created, created_ids, rb, e,
                   rollback_failures, successful, failed, returned, raised,
                   calls, ledger, nextKey, waiting, inflight,
                   request, sent, query_parts, stores, procs>>

\* ---------------------------------------------------------------------
\* _create_bulk_atomic (transactions.py:159-202)
\* ---------------------------------------------------------------------

\* variant: the id is put in front, so the rollback runs newest first
RecordCreatedIdFirst(ids, result) ==
    IF result.id # None THEN <<result.id>> \o ids ELSE ids

\* lines 177-178: if result.id: created_ids.append(result.id)
RecordCreatedId(ids, result) ==
    IF result.id # None THEN Append(ids, result.id) ELSE ids

\* lines 165-178: one iteration of the create loop, the create call answered
\* with `out`; a raise leaves the loop for the except block at line 179
AtomicCreate(out) ==
    /\ pc = "atomic_loop"
    /\ idx < transactions
    /\ out \in CreateOutcomes
    /\ waiting
    /\ waiting' = FALSE
    /\ inflight' = inflight - 1
    /\ IF out = "raise"
       THEN /\ calls' = Append(calls, Call("create", idx, out, None))
            /\ e' = idx
            /\ rb' = 1
            /\ rollback_failures' = <<>>
            /\ pc' = "rollback"
            /\ UNCHANGED <<idx, created, created_ids, ledger, nextKey>>
       ELSE LET key == nextKey
                result == TransactionOf(idx, key,
                                        IF out = "ok" THEN key ELSE None)
            IN /\ calls' = Append(calls, Call("create", idx, out, key))
               /\ ledger' = LedgerCreate(ledger, key)
               /\ nextKey' = nextKey + 1
               /\ created' = Append(created, result)
               /\ created_ids' = RecordCreatedId(created_ids, result)
               /\ idx' = idx + 1
               /\ UNCHANGED <<e, rb, rollback_failures, pc>>
    /\ stores' = Append(stores, to_transaction_split_store(items[idx + 1]))
    /\ UNCHANGED <<op, transactions, updates, successful, failed, returned,
                   raised,
                   request, sent, query_parts, items, procs>>

\* variant: a delete that raises is swallowed
CollectNoFailure(failures, txn_id, out) == failures

\* variant: a delete that did not answer 204 is collected as well
CollectUnlessDeleted(failures, txn_id, out) ==
    IF out # "ok204" THEN Append(failures, txn_id) ELSE failures

\* lines 183-186: a delete that raises is collected, any other is not
CollectRollbackFailure(failures, txn_id, out) ==
    IF out = "raise" THEN Append(failures, txn_id) ELSE failures

\* variant: the rollback loop steps over every other id
RollbackNextSkip(pos, out) == pos + 2

\* variant: a delete that raises ends the rollback loop
RollbackNextAbort(pos, out) ==
    IF out = "raise" THEN Len(created_ids) + 1 ELSE pos + 1

\* line 182: the for loop goes on to the next id whatever the delete did
RollbackNext(pos, out) == pos + 1

\* lines 182-186: one iteration of the rollback loop
RollbackDelete(out) ==
    /\ pc = "rollback"
    /\ rb <= Len(created_ids)
    /\ out \in DeleteOutcomes
    /\ waiting
    /\ waiting' = FALSE
    /\ inflight' = inflight - 1
    /\ LET txn_id == created_ids[rb]
       IN /\ calls' = Append(calls, Call("delete", txn_id, out, txn_id))
          /\ ledger' \in LedgerAfterDelete(ledger, txn_id, out)
          /\ rollback_failures' =
                 CollectRollbackFailure(rollback_failures, txn_id, out)
          /\ rb' = RollbackNext(rb, out)
    /\ UNCHANGED <<op, pc, transactions, updates, idx, created, created_ids,
                   e, successful, failed, returned, raised, nextKey,
                   request, sent, query_parts,
                   items, stores, procs>>

\* lines 188-194: the error raised after the rollback loop.  index and
\* rolled_back are the two numbers of the message, rollback_failures the
\* list appended to it (only when not empty), cause the `from e`
AtomicError(ids, failures, err) ==
    [kind |-> "atomic", index |-> Len(ids), rolled_back |-> Len(ids),
     cause |-> err, rollback_failures |-> failures, total |-> None,
     transaction_id |-> None]

AtomicRaise ==
    /\ pc = "rollback"
    /\ rb > Len(created_ids)
    /\ raised' = AtomicError(created_ids, rollback_failures, e)
    /\ pc' = "done"
    /\ UNCHANGED <<op, transactions, updates, idx, created, created_ids, rb,
                   e, rollback_failures, successful, failed, returned, calls,
                   ledger, nextKey, waiting, inflight,
                   request, sent, query_parts,
                   items, stores, procs>>

\* variant: the created transactions are reported newest first
AtomicResultReversed(c, n) ==
    [kind |-> "BulkCreateResult",
     successful |-> [j \in 1..Len(c) |-> c[Len(c) + 1 - j]],
     failed |-> <<>>,
     total_requested |-> n, total_succeeded |-> Len(c), total_failed |-> 0]

\* lines 196-202
AtomicResult(c, n) ==
    [kind |-> "BulkCreateResult", successful |-> c, failed |-> <<>>,
     total_requested |-> n, total_succeeded |-> Len(c), total_failed |-> 0]

AtomicReturn ==
    /\ pc = "atomic_loop"
    /\ idx = transactions
    /\ returned' = AtomicResult(created, transactions)
    /\ pc' = "done"
    /\ UNCHANGED <<op, transactions, updates, idx, created, created_ids, rb,
                   e, rollback_failures, successful, failed, raised, calls,
                   ledger, nextKey, waiting, inflight,
                   request, sent, query_parts,
                   items, stores, procs>>

\* ---------------------------------------------------------------------
\* _create_bulk_non_atomic (transactions.py:204-233)
\* ---------------------------------------------------------------------

\* variant: the entry counts the failures instead of naming the position
CreateFailureCount(i, err) == BulkOperationError(Len(failed), None, err)

\* line 222: failed.append(BulkOperationError(index=idx, error=str(e)))
CreateFailure(i, err) == BulkOperationError(i, None, err)

\* variant: the loop ends at the first create that raises
NonAtomicNextStop(i, out) == IF out = "raise" THEN transactions ELSE i + 1

\* line 209: the for loop goes on to the next transaction after a failure
NonAtomicNext(i, out) == i + 1

\* lines 209-222: one iteration, the create call answered with `out`
NonAtomicCreate(out) ==
    /\ pc = "non_atomic_loop"
    /\ idx < transactions
    /\ out \in CreateOutcomes
    /\ waiting
    /\ waiting' = FALSE
    /\ inflight' = inflight - 1
    /\ IF out = "raise"
       THEN /\ calls' = Append(calls, Call("create", idx, out, None))
            /\ failed' = Append(failed, CreateFailure(idx, idx))
            /\ UNCHANGED <<successful, ledger, nextKey>>
       ELSE LET key == nextKey
                result == TransactionOf(idx, key,
                                        IF out = "ok" THEN key ELSE None)
            IN /\ calls' = Append(calls, Call("create", idx, out, key))
               /\ ledger' = LedgerCreate(ledger, key)
               /\ nextKey' = nextKey + 1
               /\ successful' = Append(successful, result)
               /\ UNCHANGED failed
    /\ idx' = NonAtomicNext(idx, out)
    /\ stores' = Append(stores, to_transaction_split_store(items[idx + 1]))
    /\ UNCHANGED <<op, pc, transactions, updates, created, created_ids, rb,
                   e, rollback_failures, returned, raised,
                   request, sent, query_parts, items, procs>>

\* variant: any failure is taken for a total failure
AllFailedAny(f, n) == Len(f) > 0

\* line 224: if len(failed) == len(transactions)
AllFailed(f, n) == Len(f) = n

\* line 225 / line 419: the exception of a total failure; its message
\* holds the number of items and nothing else
TotalFailure(kind, n) ==
    [kind |-> kind, index |-> None, rolled_back |-> None, cause |-> None,
     rollback_failures |-> <<>>, total |-> n, transaction_id |-> None]

\* variant: the succeeded items are taken for the requested ones
BulkResultOfSucceeded(kind, s, f, n) ==
    [kind |-> kind, successful |-> s, failed |-> f,
     total_requested |-> Len(s),
     total_succeeded |-> Len(s), total_failed |-> Len(f)]

\* lines 227-233 / lines 421-427
BulkResult(kind, s, f, n) ==
    [kind |-> kind, successful |-> s, failed |-> f, total_requested |-> n,
     total_succeeded |-> Len(s), total_failed |-> Len(f)]

\* lines 224-233: after the loop
NonAtomicFinish ==
    /\ pc = "non_atomic_loop"
    /\ idx >= transactions
    /\ IF AllFailed(failed, transactions)
       THEN /\ raised' = TotalFailure("all_creates_failed", transactions)
            /\ UNCHANGED returned
       ELSE /\ returned' = BulkResult("BulkCreateResult", successful, failed,
                                      transactions)
            /\ UNCHANGED raised
    /\ pc' = "done"
    /\ UNCHANGED <<op, transactions, updates, idx, created, created_ids, rb,
                   e, rollback_failures, successful, failed, calls, ledger,
                   nextKey, waiting, inflight,
                   request, sent, query_parts,
                   items, stores, procs>>

\* ======================================================================
\* bulk_update_transactions (transactions.py:385-427)
\* ======================================================================

\* the requests of 1..MaxN updates
UpdateRequests == UNION {[1..n -> UpdateIds] : n \in MinLength..MaxN}

bulk_update_transactions(req) ==
    /\ pc = "idle"
    /\ req \in UpdateRequests
    /\ op' = "update"
    /\ pc' = "update_loop"
    /\ updates' = req
    /\ UNCHANGED <<transactions, idx, created, created_ids, rb, e,
                   rollback_failures, successful, failed, returned, raised,
                   calls, ledger, nextKey, waiting, inflight,
                   request, sent, query_parts,
                   items, stores, procs>>

\* variant: the entry leaves out the transaction id
UpdateFailureNoId(i, transaction_id, err) == BulkOperationError(i, None, err)

\* lines 410-416
UpdateFailure(i, transaction_id, err) ==
    BulkOperationError(i, transaction_id, err)

\* variant: the loop ends at the first update that raises
BulkUpdateNextStop(i, out) == IF out = "raise" THEN Len(updates) ELSE i + 1

\* line 405: the for loop goes on to the next update after a failure
BulkUpdateNext(i, out) == i + 1

\* lines 405-416: one iteration; update_transaction (lines 346-383) issues
\* one update call for update_req.transaction_id
BulkUpdate(out) ==
    /\ pc = "update_loop"
    /\ idx < Len(updates)
    /\ waiting
    /\ waiting' = FALSE
    /\ inflight' = inflight - 1
    /\ LET transaction_id == updates[idx + 1]
       IN /\ out \in UpdateAnswers(ledger, transaction_id)
          /\ calls' = Append(calls, Call("update", transaction_id, out, idx))
          /\ IF out = "raise"
             THEN /\ failed' = Append(failed,
                                      UpdateFailure(idx, transaction_id, idx))
                  /\ UNCHANGED successful
             ELSE /\ successful' = Append(successful,
                         TransactionOf(idx, transaction_id, transaction_id))
                  /\ UNCHANGED failed
    /\ idx' = BulkUpdateNext(idx, out)
    /\ UNCHANGED <<op, pc, transactions, updates, created, created_ids, rb,
                   e, rollback_failures, returned, raised, ledger, nextKey,
                   request, sent, query_parts,
                   items, stores, procs>>

\* line 418: if len(failed) == len(req.updates)
AllUpdatesFailed(f, n) == Len(f) = n

\* lines 418-427: after the loop
BulkUpdateFinish ==
    /\ pc = "update_loop"
    /\ idx = Len(updates)
    /\ IF AllUpdatesFailed(failed, Len(updates))
       THEN /\ raised' = TotalFailure("all_updates_failed", Len(updates))
            /\ UNCHANGED returned
       ELSE /\ returned' = BulkResult("BulkUpdateResult", successful, failed,
                                      Len(updates))
            /\ UNCHANGED raised
    /\ pc' = "done"
    /\ UNCHANGED <<op, transactions, updates, idx, created, created_ids, rb,
                   e, rollback_failures, successful, failed, calls, ledger,
                   nextKey, waiting, inflight,
                   request, sent, query_parts,
                   items, stores, procs>>

\* ======================================================================
\* FireflyClient.bulk_update_transactions (firefly.py:310-326), the path of
\* the server module's bulk_update_transactions tool (server.py:134-137)
\* ======================================================================

client_bulk_update_transactions(req) ==
    /\ pc = "idle"
    /\ req \in UpdateRequests
    /\ op' = "client_update"
    /\ pc' = "client_update_loop"
    /\ updates' = req
    /\ UNCHANGED <<transactions, idx, created, created_ids, rb, e,
                   rollback_failures, successful, failed, returned, raised,
                   calls, ledger, nextKey, waiting, inflight,
                   request, sent, query_parts,
                   items, stores, procs>>

\* lines 322-324: raise Exception(f'Failed to update transaction
\* {update_req.transaction_id}: {e}') from e
ClientUpdateError(transaction_id, err) ==
    [kind |-> "client_update_failed", index |-> None, rolled_back |-> None,
     cause |-> err, rollback_failures |-> <<>>, total |-> None,
     transaction_id |-> transaction_id]

\* variant: the error is noted and the loop goes on
ClientAfterUpdateGoOn(out) == "client_update_loop"

\* lines 316-324: the raise in the except block leaves the function
ClientAfterUpdate(out) ==
    IF out = "raise" THEN "done" ELSE "client_update_loop"

\* lines 316-324: one iteration; self.update_transaction (lines 277-308)
\* sends one PUT
ClientBulkUpdate(out) ==
    /\ pc = "client_update_loop"
    /\ idx < Len(updates)
    /\ waiting
    /\ waiting' = FALSE
    /\ inflight' = inflight - 1
    /\ LET transaction_id == updates[idx + 1]
       IN /\ out \in UpdateAnswers(ledger, transaction_id)
          /\ calls' = Append(calls, Call("update", transaction_id, out, idx))
          /\ IF out = "raise"
             THEN /\ raised' = ClientUpdateError(transaction_id, idx)
                  /\ UNCHANGED successful
             ELSE /\ successful' = Append(successful,
                         TransactionOf(idx, transaction_id, transaction_id))
                  /\ UNCHANGED raised
    /\ pc' = ClientAfterUpdate(out)
    /\ idx' = idx + 1
    /\ UNCHANGED <<op, transactions, updates, created, created_ids, rb, e,
                   rollback_failures, failed, returned, ledger, nextKey,
                   request, sent, query_parts,
                   items, stores, procs>>

\* line 326: return updated_transactions
UpdatedTransactions(s) ==
    [kind |-> "TransactionList", successful |-> s, failed |-> <<>>,
     total_requested |-> None, total_succeeded |-> None,
     total_failed |-> None]

ClientBulkUpdateReturn ==
    /\ pc = "client_update_loop"
    /\ idx = Len(updates)
    /\ returned' = UpdatedTransactions(successful)
    /\ pc' = "done"
    /\ UNCHANGED <<op, transactions, updates, idx, created, created_ids, rb,
                   e, rollback_failures, successful, failed, raised, calls,
                   ledger, nextKey, waiting, inflight,
                   request, sent, query_parts,
                   items, stores, procs>>

\* ======================================================================
\* cancellation: the task that runs a bulk operation is cancelled while it
\* is suspended in an await (transactions.py:174, 184, 219, 407)
\* ======================================================================

\* asyncio raises CancelledError inside the awaiting coroutine
CancelledError ==
    [kind |-> "cancelled", index |-> None, rolled_back |-> None,
     cause |-> None, rollback_failures |-> <<>>, total |-> None,
     transaction_id |-> None]

\* variant: the handler catches every exception
ExceptBaseException(exc) == TRUE

\* `except Exception`: CancelledError derives from BaseException and is
\* not caught (transactions.py:179, 185, 221, 409)
ExceptException(exc) == exc.kind # "cancelled"

\* the loops whose await can be cancelled
CancellablePcs == {"atomic_loop", "rollback", "non_atomic_loop",
                   "update_loop"}

\* the call in flight is abandoned: the ledger may or may not have carried
\* it out (landed); the coroutine gets CancelledError at its await
Cancel(landed) ==
    /\ pc \in CancellablePcs
    /\ waiting
    /\ landed \in BOOLEAN
    /\ waiting' = FALSE
    /\ inflight' = inflight - 1
    /\ CASE pc \in {"atomic_loop", "non_atomic_loop"} ->
              IF landed
              THEN /\ calls' = Append(calls,
                                 Call("create", idx, "cancelled", nextKey))
                   /\ ledger' = LedgerCreate(ledger, nextKey)
                   /\ nextKey' = nextKey + 1
              ELSE /\ calls' = Append(calls,
                                 Call("create", idx, "cancelled", None))
                   /\ UNCHANGED <<ledger, nextKey>>
         [] pc = "rollback" ->
              /\ calls' = Append(calls, Call("delete", created_ids[rb],
                                            "cancelled", created_ids[rb]))
              /\ ledger' = IF landed THEN ledger \ {created_ids[rb]}
                                     ELSE ledger
              /\ UNCHANGED nextKey
         [] OTHER ->
              /\ calls' = Append(calls, Call("update", updates[idx + 1],
                                            "cancelled", idx))
              /\ UNCHANGED <<ledger, nextKey>>
    /\ IF pc = "atomic_loop" /\ ExceptException(CancelledError)
       THEN /\ e' = idx
            /\ rb' = 1
            /\ rollback_failures' = <<>>
            /\ pc' = "rollback"
            /\ UNCHANGED raised
       ELSE /\ raised' = CancelledError
            /\ pc' = "cancelled"
            /\ UNCHANGED <<e, rb, rollback_failures>>
    /\ stores' = IF pc \in {"atomic_loop", "non_atomic_loop"}
                  THEN Append(stores,
                              to_transaction_split_store(items[idx + 1]))
                  ELSE stores
    /\ UNCHANGED <<op, transactions, updates, idx, created, created_ids,
                   successful, failed, returned, request, sent, query_parts,
                   items, procs>>

\* ======================================================================
\* update_transaction (transactions.py:346-383)
\* ======================================================================

\* the mutable fields of UpdateTransactionRequest (lampyrid_models.py:544-562)
Mutable == {"amount", "description", "date", "source_id", "destination_id",
            "budget_id", "category_name"}

\* a field of the request: left out, given as None, or given a value; a
\* field that was left out reads as None
Unset == [set |-> FALSE, val |-> Nothing]
Given(val) == [set |-> TRUE, val |-> val]

\* the transaction a single update is asked for
SingleUpdateIds == {11}

UpdateFieldValues(f) ==
    CASE f = "amount" -> {Float(0), Float(75)}
      [] f = "description" -> {Str(<<>>), Str(<<"d">>)}
      [] f = "date" -> {Date("2024-01-15")}
      [] OTHER -> {Str(<<"2">>)}

UpdateFieldChoices(f) ==
    {Unset, Given(Nothing)} \cup {Given(Some(v)) : v \in UpdateFieldValues(f)}

UpdateRequestFields ==
    [amount : UpdateFieldChoices("amount"),
     description : UpdateFieldChoices("description"),
     date : UpdateFieldChoices("date"),
     source_id : UpdateFieldChoices("source_id"),
     destination_id : UpdateFieldChoices("destination_id"),
     budget_id : UpdateFieldChoices("budget_id"),
     category_name : UpdateFieldChoices("category_name")]

\* `if req.x:` in the place of `if req.x is not None:`
IsTruthy(opt) == opt # Nothing /\ Truthy(opt[1])

\* `req.x is not None`
IsNotNone(opt) == opt # Nothing

\* lines 357-372: update_kwargs; the amount goes in as str(req.amount)
UpdateKwargs(fields) ==
    LET keys == {f \in Mutable : IsNotNone(fields[f].val)}
    IN [f \in keys |->
          IF f = "amount" THEN Str(Format(fields[f].val[1]))
                          ELSE fields[f].val[1]]

\* lines 374-378: TransactionSplitUpdate(**update_kwargs) inside a
\* TransactionUpdate; the split has exactly the keyword arguments set
TransactionUpdate(kwargs) ==
    [apply_rules |-> FALSE, fire_webhooks |-> TRUE, group_title |-> Nothing,
     transactions |-> <<[f \in DOMAIN kwargs |-> Some(kwargs[f])]>>]

\* FireflyClient._serialize_model(model, exclude_unset=True): the fields of
\* the split that are set and not None
SerializeSplit(split) ==
    LET keys == {f \in DOMAIN split : split[f] # Nothing}
    IN [f \in keys |-> split[f][1]]

\* lines 356-382: the payload is built and the update call is issued
update_transaction(id, fields) ==
    /\ pc = "idle"
    /\ id \in SingleUpdateIds
    /\ fields \in UpdateRequestFields
    /\ op' = "update_single"
    /\ pc' = "update_wait"
    /\ request' = Some([transaction_id |-> id, fields |-> fields])
    /\ sent' = Some([transaction_id |-> id,
                     body |-> SerializeSplit(
                        TransactionUpdate(UpdateKwargs(fields)).transactions[1])])
    /\ waiting' = Await(waiting)
    /\ inflight' = inflight + 1
    /\ UNCHANGED <<transactions, updates, idx, created, created_ids, rb, e,
                   rollback_failures, successful, failed, returned, raised,
                   calls, ledger, nextKey, query_parts,
                   items, stores, procs>>

\* a remote error that the operation lets through to the caller
RemoteError(transaction_id) ==
    [kind |-> "remote_error", index |-> None, rolled_back |-> None,
     cause |-> None, rollback_failures |-> <<>>, total |-> None,
     transaction_id |-> transaction_id]

\* line 383: return Transaction.from_transaction_single(transaction_single)
SingleResult(kind, t) ==
    [kind |-> kind, successful |-> <<t>>, failed |-> <<>>,
     total_requested |-> None, total_succeeded |-> None,
     total_failed |-> None]

\* lines 380-383: the update call is answered
UpdateAnswered(out) ==
    /\ pc = "update_wait"
    /\ waiting
    /\ waiting' = FALSE
    /\ inflight' = inflight - 1
    /\ LET transaction_id == request[1].transaction_id
       IN /\ out \in UpdateAnswers(ledger, transaction_id)
          /\ calls' = Append(calls, Call("update", transaction_id, out, None))
          /\ IF out = "raise"
             THEN /\ raised' = RemoteError(transaction_id)
                  /\ UNCHANGED returned
             ELSE /\ returned' = SingleResult("Transaction",
                         TransactionOf(None, transaction_id, transaction_id))
                  /\ UNCHANGED raised
    /\ pc' = "done"
    /\ UNCHANGED <<op, transactions, updates, idx, created, created_ids, rb,
                   e, rollback_failures, successful, failed, ledger, nextKey,
                   request, sent, query_parts,
                   items, stores, procs>>

\* ======================================================================
\* FireflyClient._sanitize_value (firefly.py:121-140)
\* ======================================================================

\* the characters of the texts: a letter, the three characters the
\* sanitizer looks for, the backslash, and a tab as a whitespace character
\* that is not a space
Chars == {"a", " ", "\"", "'", "\\", "\t"}

Texts == UNION {[1..n -> Chars] : n \in 0..MaxStrLen}

\* str.replace(old, new) for a one-character old
RECURSIVE replace(_, _, _)
replace(value, old, new) ==
    IF value = <<>> THEN <<>>
    ELSE (IF Head(value) = old THEN new ELSE <<Head(value)>>)
         \o replace(Tail(value), old, new)

\* the two passes in the other order
EscapeQuotesFirst(value) ==
    replace(replace(value, "\"", <<"\\", "\"">>), "\\", <<"\\", "\\">>)

\* line 135: value.replace('\\', '\\\\').replace('"', '\\"')
Escape(value) ==
    replace(replace(value, "\\", <<"\\", "\\">>), "\"", <<"\\", "\"">>)

\* line 138: ' ' in value or '"' in value or "'" in value
NeedsQuotes(value) ==
    \E i \in 1..Len(value) : value[i] \in {" ", "\"", "'"}

\* lines 135-140
sanitize_value(value) ==
    LET escaped == Escape(value)
    IN IF NeedsQuotes(value) THEN <<"\"">> \o escaped \o <<"\"">>
                             ELSE escaped

\* ======================================================================
\* SearchTransactionsRequest (lampyrid_models.py:284-390)
\* ======================================================================

\* the filter fields, in the order of the class and of the validator
FieldOrder == <<"query", "type", "amount_equals", "amount_more",
                "amount_less", "date_on", "date_after", "date_before",
                "description_contains", "category", "budget",
                "account_contains", "account_id">>

FieldSet == {FieldOrder[i] : i \in 1..Len(FieldOrder)}

FreeText == {"description_contains", "category", "budget",
             "account_contains"}

\* raw query texts: empty, a word, and one with a space and a quote
Queries == {<<>>, <<"a">>, <<"a", " ", "\"">>}

\* free-text values used next to other fields: empty, and one with a space
TextSamples == {<<>>, <<"a", " ">>}

\* a value of the type of field f; q is the raw query and text the value
\* of the free-text filters
FieldValue(f, q, text) ==
    CASE f = "query" -> Str(q)
      [] f = "type" -> Str(<<"withdrawal">>)
      [] f = "amount_equals" -> Float(0)
      [] f = "amount_more" -> Float(5)
      [] f = "amount_less" -> Float(75)
      [] f = "date_on" -> Date("2024-01-15")
      [] f = "date_after" -> Date("2024-01-01")
      [] f = "date_before" -> Date("2024-12-31")
      [] f = "account_id" -> IntOf(0)
      [] OTHER -> Str(text)

\* pagination defaults and limits (lampyrid_models.py:361-368)
DefaultPage == 1
DefaultLimit == 50
MinPage == 1
MinLimit == 1
MaxLimit == 500

Pages == {Nothing, Some(MinPage - 1), Some(MinPage), Some(MinPage + 1)}
Limits == {Nothing, Some(MinLimit - 1), Some(MinLimit), Some(MaxLimit),
           Some(MaxLimit + 1)}

\* the keyword arguments of a construction: the fields in present get a
\* value, the others stay at None
SearchArgs(present, q, text, page, limit) ==
    [fields |-> [f \in FieldSet |->
                    IF f \in present THEN Some(FieldValue(f, q, text))
                                     ELSE Nothing],
     page |-> page, limit |-> limit]

FieldSubsets ==
    {present \in SUBSET FieldSet : Cardinality(present) <= MaxFields}
        \cup {FieldSet}

\* requests with several fields, requests with one free-text filter of
\* any text, and requests that vary the pagination
SearchRequests ==
    {SearchArgs(present, q, text, Some(DefaultPage), Some(DefaultLimit)) :
        present \in FieldSubsets, q \in Queries, text \in TextSamples}
    \cup
    {SearchArgs({f}, <<>>, text, Some(DefaultPage), Some(DefaultLimit)) :
        f \in FreeText, text \in Texts}
    \cup
    {SearchArgs({"type"}, <<>>, <<>>, page, limit) :
        page \in Pages, limit \in Limits}

\* lines 370-390: any(field is not None for field in search_fields)
validate_search_criteria(args) ==
    \E i \in 1..Len(FieldOrder) : args.fields[FieldOrder[i]] # Nothing

\* line 361-365: page: int | None, ge=1
PageOk(page) == page = Nothing \/ page[1] >= MinPage

\* the upper limit left out
LimitOkNoUpper(limit) == limit = Nothing \/ limit[1] >= MinLimit

\* lines 366-368: limit: int | None, ge=1, le=500
LimitOk(limit) ==
    limit = Nothing \/ (limit[1] >= MinLimit /\ limit[1] <= MaxLimit)

\* pydantic's error for a request that cannot be constructed
ValidationError ==
    [kind |-> "validation_error", index |-> None, rolled_back |-> None,
     cause |-> None, rollback_failures |-> <<>>, total |-> None,
     transaction_id |-> None]

\* SearchTransactionsRequest(**args): field constraints, then the validator
SearchTransactionsRequest(args) ==
    /\ pc = "idle"
    /\ args \in SearchRequests
    /\ op' = "search"
    /\ request' = Some(args)
    /\ IF PageOk(args.page) /\ LimitOk(args.limit)
          /\ validate_search_criteria(args)
       THEN /\ pc' = "search_ready"
            /\ UNCHANGED raised
       ELSE /\ pc' = "done"
            /\ raised' = ValidationError
    /\ UNCHANGED <<transactions, updates, idx, created, created_ids, rb, e,
                   rollback_failures, successful, failed, returned, calls,
                   ledger, nextKey, waiting, inflight, sent, query_parts,
                   items, stores, procs>>

\* ======================================================================
\* search_transactions (transactions.py:280-344)
\* ======================================================================

\* `if req.x:` - the field is not None and its value is not falsy
Provided(opt) == opt # Nothing /\ Truthy(opt[1])

\* the raw query run through the sanitizer
RawQuerySanitized(query) == sanitize_value(query.s)

\* line 295: query_parts.append(req.query)
RawQuery(query) == query.s

\* f'{name}:{value}'
Clause(name, value) == <<name>> \o value

\* lines 291-333: the clauses, appended field by field
QueryParts(req) ==
    LET p0 == <<>>
        p1 == IF Provided(req.query)
              THEN Append(p0, RawQuery(req.query[1])) ELSE p0
        p2 == IF Provided(req.type)
              THEN Append(p1, Clause("type:", Format(req.type[1]))) ELSE p1
        p3 == IF IsNotNone(req.amount_equals)
              THEN Append(p2, Clause("amount:", Format(req.amount_equals[1])))
              ELSE p2
        p4 == IF IsNotNone(req.amount_more)
              THEN Append(p3, Clause("more:", Format(req.amount_more[1])))
              ELSE p3
        p5 == IF IsNotNone(req.amount_less)
              THEN Append(p4, Clause("less:", Format(req.amount_less[1])))
              ELSE p4
        p6 == IF Provided(req.date_on)
              THEN Append(p5, Clause("date_on:", Format(req.date_on[1])))
              ELSE p5
        p7 == IF Provided(req.date_after)
              THEN Append(p6, Clause("date_after:", Format(req.date_after[1])))
              ELSE p6
        p8 == IF Provided(req.date_before)
              THEN Append(p7, Clause("date_before:",
                                     Format(req.date_before[1])))
              ELSE p7
        p9 == IF Provided(req.description_contains)
              THEN Append(p8, Clause("description_contains:",
                             sanitize_value(req.description_contains[1].s)))
              ELSE p8
        p10 == IF Provided(req.category)
               THEN Append(p9, Clause("category_is:",
                                      sanitize_value(req.category[1].s)))
               ELSE p9
        p11 == IF Provided(req.budget)
               THEN Append(p10, Clause("budget_is:",
                                       sanitize_value(req.budget[1].s)))
               ELSE p10
        p12 == IF Provided(req.account_contains)
               THEN Append(p11, Clause("account_contains:",
                              sanitize_value(req.account_contains[1].s)))
               ELSE p11
        p13 == IF IsNotNone(req.account_id)
               THEN Append(p12, Clause("account_id:",
                                       Format(req.account_id[1])))
               ELSE p12
    IN p13

\* the parts written one after the other
RECURSIVE JoinNoSpace(_)
JoinNoSpace(parts) ==
    IF parts = <<>> THEN <<>>
    ELSE Head(parts) \o JoinNoSpace(Tail(parts))

\* line 336: ' '.join(query_parts)
RECURSIVE Join(_)
Join(parts) ==
    IF parts = <<>> THEN <<>>
    ELSE IF Len(parts) = 1 THEN Head(parts)
    ELSE Head(parts) \o <<" ">> \o Join(Tail(parts))

\* `req.page or 1`, `req.limit or 50`
Or(opt, default) ==
    IF opt = Nothing \/ opt[1] = 0 THEN default ELSE opt[1]

\* lines 290-340: the query is compiled and the search call is issued
search_transactions ==
    /\ pc = "search_ready"
    /\ LET req == request[1]
       IN /\ query_parts' = QueryParts(req.fields)
          /\ sent' = Some([query |-> Join(QueryParts(req.fields)),
                           page |-> Or(req.page, DefaultPage),
                           limit |-> Or(req.limit, DefaultLimit)])
    /\ pc' = "search_wait"
    /\ waiting' = Await(waiting)
    /\ inflight' = inflight + 1
    /\ UNCHANGED <<op, transactions, updates, idx, created, created_ids, rb,
                   e, rollback_failures, successful, failed, returned,
                   raised, calls, ledger, nextKey, request, items, stores,
                   procs>>

\* the answers of the ledger to a search
SearchOutcomes == {"ok", "raise"}

\* lines 338-344: the search call is answered
SearchAnswered(out) ==
    /\ pc = "search_wait"
    /\ waiting
    /\ out \in SearchOutcomes
    /\ waiting' = FALSE
    /\ inflight' = inflight - 1
    /\ calls' = Append(calls, Call("search", None, out, None))
    /\ IF out = "raise"
       THEN /\ raised' = RemoteError(None)
            /\ UNCHANGED returned
       ELSE /\ returned' = [NoResult EXCEPT !.kind = "TransactionListResponse"]
            /\ UNCHANGED raised
    /\ pc' = "done"
    /\ UNCHANGED <<op, transactions, updates, idx, created, created_ids, rb,
                   e, rollback_failures, successful, failed, ledger, nextKey,
                   request, sent, query_parts,
                   items, stores, procs>>

\* ======================================================================
\* CreateBulkTransactionsRequest (lampyrid_models.py:529-537)
\* ======================================================================

\* the list lengths a construction is tried with that the model rejects
BadLengths == {MinLength - 1, MaxLength + 1}

\* CreateBulkTransactionsRequest(transactions=[...]) with a list that is
\* too short or too long
CreateBulkTransactionsRequestRejected(n) ==
    /\ pc = "idle"
    /\ n \in BadLengths
    /\ ~LengthOk(n)
    /\ op' = "create_request"
    /\ transactions' = n
    /\ raised' = ValidationError
    /\ pc' = "done"
    /\ UNCHANGED <<updates, idx, created, created_ids, rb, e,
                   rollback_failures, successful, failed, returned, calls,
                   ledger, nextKey, waiting, inflight, request, sent,
                   query_parts,
                   items, stores, procs>>

\* ======================================================================
\* FireflyClient.create_bulk_transactions (firefly.py:254-275)
\* ======================================================================

\* the method is called with a validated request
client_create_bulk_transactions(list) ==
    /\ pc = "idle"
    /\ list \in BulkCreateLists
    /\ op' = "client_create"
    /\ pc' = "client_create_loop"
    /\ transactions' = Len(list)
    /\ items' = list
    /\ UNCHANGED <<updates, idx, created, created_ids, rb, e,
                   rollback_failures, successful, failed, returned, raised,
                   calls, ledger, nextKey, waiting, inflight, request, sent,
                   query_parts, stores, procs>>

\* lines 260-273: one iteration sends one POST; raise_for_status (line 271)
\* is not caught and leaves the method
ClientBulkCreate(out) ==
    /\ pc = "client_create_loop"
    /\ idx < transactions
    /\ out \in CreateOutcomes
    /\ waiting
    /\ waiting' = FALSE
    /\ inflight' = inflight - 1
    /\ stores' = Append(stores, to_transaction_split_store(items[idx + 1]))
    /\ IF out = "raise"
       THEN /\ calls' = Append(calls, Call("create", idx, out, None))
            /\ raised' = RemoteError(None)
            /\ pc' = "done"
            /\ UNCHANGED <<created, ledger, nextKey>>
       ELSE /\ calls' = Append(calls, Call("create", idx, out, nextKey))
            /\ ledger' = LedgerCreate(ledger, nextKey)
            /\ nextKey' = nextKey + 1
            /\ created' = Append(created,
                               TransactionOf(idx, nextKey,
                                   IF out = "ok" THEN nextKey ELSE None))
            /\ UNCHANGED <<raised, pc>>
    /\ idx' = idx + 1
    /\ UNCHANGED <<op, transactions, updates, created_ids, rb, e,
                   rollback_failures, successful, failed, returned, request,
                   sent, query_parts, items, procs>>

\* line 275: return created_transactions
ClientBulkCreateReturn ==
    /\ pc = "client_create_loop"
    /\ idx = transactions
    /\ ~waiting
    /\ returned' = UpdatedTransactions(created)
    /\ pc' = "done"
    /\ UNCHANGED <<op, transactions, updates, idx, created, created_ids, rb,
                   e, rollback_failures, successful, failed, raised, calls,
                   ledger, nextKey, waiting, inflight, request, sent,
                   query_parts, items, stores, procs>>

\* ======================================================================
\* FireflyClient.get_budget_spending (firefly.py:406-456)
\* ======================================================================

\* the answers of the ledger to a GET
GetOutcomes == {"ok", "raise"}

\* the two requests of the method, in the order they are sent
BudgetRequest == 0
LimitsRequest == 1

\* lines 406-413: the method is called; the first request is the budget
get_budget_spending ==
    /\ pc = "idle"
    /\ op' = "client_budget_spending"
    /\ pc' = "budget_get"
    /\ UNCHANGED <<transactions, updates, idx, created, created_ids, rb, e,
                   rollback_failures, successful, failed, returned, raised,
                   calls, ledger, nextKey, waiting, inflight, request, sent,
                   query_parts, items, stores, procs>>

\* lines 416-420: GET /api/v1/budgets/{id} is answered
BudgetGet(out) ==
    /\ pc = "budget_get"
    /\ out \in GetOutcomes
    /\ waiting
    /\ waiting' = FALSE
    /\ inflight' = inflight - 1
    /\ calls' = Append(calls, Call("get", BudgetRequest, out, None))
    /\ IF out = "raise"
       THEN /\ raised' = RemoteError(None)
            /\ pc' = "done"
       ELSE /\ pc' = "limits_get"
            /\ UNCHANGED raised
    /\ UNCHANGED <<op, transactions, updates, idx, created, created_ids, rb,
                   e, rollback_failures, successful, failed, returned,
                   ledger, nextKey, request, sent, query_parts, items,
                   stores, procs>>

\* lines 423-456: GET /api/v1/budgets/{id}/limits is answered and the
\* spending is returned
LimitsGet(out) ==
    /\ pc = "limits_get"
    /\ out \in GetOutcomes
    /\ waiting
    /\ waiting' = FALSE
    /\ inflight' = inflight - 1
    /\ calls' = Append(calls, Call("get", LimitsRequest, out, None))
    /\ IF out = "raise"
       THEN /\ raised' = RemoteError(None)
            /\ UNCHANGED returned
       ELSE /\ returned' = [NoResult EXCEPT !.kind = "BudgetSpending"]
            /\ UNCHANGED raised
    /\ pc' = "done"
    /\ UNCHANGED <<op, transactions, updates, idx, created, created_ids, rb,
                   e, rollback_failures, successful, failed, ledger, nextKey,
                   request, sent, query_parts, items, stores, procs>>

\* ======================================================================
\* create_withdrawal, create_deposit, create_transfer
\* (transactions.py:48-133)
\* ======================================================================

\* a field declared `str = Field(...)`: the request cannot be constructed
\* without it (lampyrid_models.py:184-252)
Required(opt) == opt # Nothing

\* the arguments a create request is constructed from
CreateArgs ==
    [source_id : OptionalIds, destination_id : OptionalIds,
     source_name : OptionalNames, destination_name : OptionalNames]

\* the request is handed to the client as one TransactionStore, or its
\* construction fails
CreateSingle(constructed, trx) ==
    /\ pc = "idle"
    /\ op' = "create"
    /\ IF constructed
       THEN /\ stores' = Append(stores, trx)
            /\ pc' = "create_wait"
            /\ waiting' = Await(waiting)
            /\ inflight' = inflight + 1
            /\ UNCHANGED raised
       ELSE /\ raised' = ValidationError
            /\ pc' = "done"
            /\ UNCHANGED <<stores, waiting, inflight>>
    /\ UNCHANGED <<transactions, updates, idx, created, created_ids, rb, e,
                   rollback_failures, successful, failed, returned, calls,
                   ledger, nextKey, request, sent, query_parts, items,
                   procs>>

\* lines 48-76: CreateWithdrawalRequest has source_id and destination_name
create_withdrawal(args) ==
    /\ args \in CreateArgs
    /\ CreateSingle(Required(args.source_id),
                    TransactionSplitStore("withdrawal", args.source_id,
                                          Nothing, Nothing,
                                          args.destination_name))

\* lines 78-104: CreateDepositRequest has source_name and destination_id
create_deposit(args) ==
    /\ args \in CreateArgs
    /\ CreateSingle(Required(args.destination_id),
                    TransactionSplitStore("deposit", Nothing,
                                          args.destination_id,
                                          args.source_name, Nothing))

\* lines 106-133: CreateTransferRequest has source_id and destination_id
create_transfer(args) ==
    /\ args \in CreateArgs
    /\ CreateSingle(Required(args.source_id)
                        /\ Required(args.destination_id),
                    TransactionSplitStore("transfer", args.source_id,
                                          args.destination_id, Nothing,
                                          Nothing))

\* `await self._client.create_transaction(trx_store)` is answered
CreateAnswered(out) ==
    /\ pc = "create_wait"
    /\ waiting
    /\ out \in CreateOutcomes
    /\ waiting' = FALSE
    /\ inflight' = inflight - 1
    /\ IF out = "raise"
       THEN /\ calls' = Append(calls, Call("create", 0, out, None))
            /\ raised' = RemoteError(None)
            /\ UNCHANGED <<returned, ledger, nextKey>>
       ELSE /\ calls' = Append(calls, Call("create", 0, out, nextKey))
            /\ ledger' = LedgerCreate(ledger, nextKey)
            /\ nextKey' = nextKey + 1
            /\ returned' = SingleResult("Transaction",
                               TransactionOf(0, nextKey,
                                   IF out = "ok" THEN nextKey ELSE None))
            /\ UNCHANGED raised
    /\ pc' = "done"
    /\ UNCHANGED <<op, transactions, updates, idx, created, created_ids, rb,
                   e, rollback_failures, successful, failed, request, sent,
                   query_parts, items, stores, procs>>

\* ======================================================================
Next ==
    \/ \E atomic \in BOOLEAN, list \in BulkCreateLists :
          create_bulk_transactions(atomic, list)
    \/ \E args \in CreateArgs : create_withdrawal(args)
    \/ \E args \in CreateArgs : create_deposit(args)
    \/ \E args \in CreateArgs : create_transfer(args)
    \/ \E out \in CreateOutcomes : CreateAnswered(out)
    \/ \E list \in BulkCreateLists : client_create_bulk_transactions(list)
    \/ \E out \in CreateOutcomes : ClientBulkCreate(out)
    \/ ClientBulkCreateReturn
    \/ get_budget_spending
    \/ \E out \in GetOutcomes : BudgetGet(out)
    \/ \E out \in GetOutcomes : LimitsGet(out)
    \/ IssueCall
    \/ \E out \in CreateOutcomes : AtomicCreate(out)
    \/ \E out \in DeleteOutcomes : RollbackDelete(out)
    \/ AtomicRaise
    \/ AtomicReturn
    \/ \E out \in CreateOutcomes : NonAtomicCreate(out)
    \/ NonAtomicFinish
    \/ \E req \in UpdateRequests : bulk_update_transactions(req)
    \/ \E out \in UpdateOutcomes : BulkUpdate(out)
    \/ BulkUpdateFinish
    \/ \E req \in UpdateRequests : client_bulk_update_transactions(req)
    \/ \E out \in UpdateOutcomes : ClientBulkUpdate(out)
    \/ ClientBulkUpdateReturn
    \/ \E landed \in BOOLEAN : Cancel(landed)
    \/ \E id \in SingleUpdateIds, fields \in UpdateRequestFields :
          update_transaction(id, fields)
    \/ \E out \in UpdateOutcomes : UpdateAnswered(out)
    \/ \E args \in SearchRequests : SearchTransactionsRequest(args)
    \/ search_transactions
    \/ \E out \in SearchOutcomes : SearchAnswered(out)
    \/ \E n \in BadLengths : CreateBulkTransactionsRequestRejected(n)

Spec == Init /\ [][Next]_vars

\* every remote call of a bulk operation is answered at some time
RemoteAnswers ==
    \/ \E out \in CreateOutcomes : AtomicCreate(out)
    \/ \E out \in DeleteOutcomes : RollbackDelete(out)
    \/ \E out \in CreateOutcomes : NonAtomicCreate(out)
    \/ \E out \in UpdateOutcomes : BulkUpdate(out)

\* the event loop runs a coroutine that is not suspended
CoroutineSteps ==
    \/ IssueCall
    \/ AtomicRaise
    \/ AtomicReturn
    \/ NonAtomicFinish
    \/ BulkUpdateFinish

LiveSpec ==
    Spec /\ WF_vars(RemoteAnswers) /\ WF_vars(CoroutineSteps)

\* ======================================================================
\* two bulk calls on one TransactionService (transactions.py:44-46)
\* ======================================================================
\* The instance holds the client and nothing else; created, created_ids,
\* rollback_failures, successful and failed are locals of each call.  The
\* two coroutines run on one event loop: each runs from one await to the
\* next without the other one running, and the ledger carries out one
\* request at a time.

\* the two calls
Procs == {1, 2}

\* the longest list of a call
ConcMaxN == 2

\* the ids the updates name: a transaction of the ledger, and the first key
\* the ledger hands out to a create
ConcUpdateIds == {1, 11}

ConcUpdateRequests ==
    UNION {[1..n -> ConcUpdateIds] : n \in MinLength..ConcMaxN}

\* the locals of a call that has not started; log holds its own remote
\* calls with the answers it got
Locals ==
    [op |-> "none", pc |-> "idle", transactions |-> 0, updates |-> <<>>,
     idx |-> 0, created |-> <<>>, created_ids |-> <<>>, rb |-> 1,
     e |-> None, rollback_failures |-> <<>>, successful |-> <<>>,
     failed |-> <<>>, returned |-> NoResult, raised |-> NoError,
     log |-> <<>>]

ConcInit ==
    /\ op = "none"
    /\ pc = "idle"
    /\ transactions = 0
    /\ updates = <<>>
    /\ idx = 0
    /\ created = <<>>
    /\ created_ids = <<>>
    /\ rb = 1
    /\ e = None
    /\ rollback_failures = <<>>
    /\ successful = <<>>
    /\ failed = <<>>
    /\ returned = NoResult
    /\ raised = NoError
    /\ calls = <<>>
    /\ ledger \in SUBSET ExistingIds
    /\ nextKey = 1
    /\ waiting = FALSE
    /\ inflight = 0
    /\ request = Nothing
    /\ sent = Nothing
    /\ query_parts = <<>>
    /\ items = <<>>
    /\ stores = <<>>
    /\ procs = [p \in Procs |-> Locals]

\* line 46: self._client is the only attribute, and no method assigns it
InstanceUnchanged ==
    UNCHANGED <<op, pc, transactions, updates, idx, created, created_ids,
                rb, e, rollback_failures, successful, failed, returned,
                raised, calls, waiting, inflight, request, sent, query_parts,
                items, stores>>

\* variant: created_ids is kept on the instance, one list for all calls
CreatedIdsOfInstance(pr, p) == pr[1].created_ids \o pr[2].created_ids

\* line 162: created_ids is a local of the call
CreatedIdsOf(pr, p) == pr[p].created_ids

\* lines 134-157, 385-405: a call starts
ConcCreateBulk(p, atomic, n) ==
    /\ procs[p].pc = "idle"
    /\ n \in MinLength..ConcMaxN
    /\ procs' = [procs EXCEPT ![p] =
                   [@ EXCEPT !.op = IF atomic THEN "atomic" ELSE "non_atomic",
                             !.pc = IF atomic THEN "atomic_loop"
                                              ELSE "non_atomic_loop",
                             !.transactions = n]]
    /\ UNCHANGED <<ledger, nextKey>>
    /\ InstanceUnchanged

ConcBulkUpdateStart(p, req) ==
    /\ procs[p].pc = "idle"
    /\ req \in ConcUpdateRequests
    /\ procs' = [procs EXCEPT ![p] =
                   [@ EXCEPT !.op = "update", !.pc = "update_loop",
                             !.updates = req]]
    /\ UNCHANGED <<ledger, nextKey>>
    /\ InstanceUnchanged

\* lines 165-178: one iteration of the create loop of call p
ConcAtomicCreate(p, out) ==
    LET L == procs[p]
    IN /\ L.pc = "atomic_loop"
       /\ L.idx < L.transactions
       /\ out \in CreateOutcomes
       /\ IF out = "raise"
          THEN /\ procs' = [procs EXCEPT ![p] =
                    [L EXCEPT !.log = Append(L.log,
                                         Call("create", L.idx, out, None)),
                              !.e = L.idx,
                              !.rb = 1,
                              !.rollback_failures = <<>>,
                              !.pc = "rollback"]]
               /\ UNCHANGED <<ledger, nextKey>>
          ELSE LET key == nextKey
                   result == TransactionOf(L.idx, key,
                                           IF out = "ok" THEN key ELSE None)
               IN /\ procs' = [procs EXCEPT ![p] =
                       [L EXCEPT !.log = Append(L.log,
                                            Call("create", L.idx, out, key)),
                                 !.created = Append(L.created, result),
                                 !.created_ids =
                                     RecordCreatedId(L.created_ids, result),
                                 !.idx = L.idx + 1]]
                  /\ ledger' = LedgerCreate(ledger, key)
                  /\ nextKey' = nextKey + 1
       /\ InstanceUnchanged

\* lines 182-186: one iteration of the rollback loop of call p
ConcRollbackDelete(p, out) ==
    LET L == procs[p]
        ids == CreatedIdsOf(procs, p)
    IN /\ L.pc = "rollback"
       /\ L.rb <= Len(ids)
       /\ out \in DeleteOutcomes
       /\ LET txn_id == ids[L.rb]
          IN /\ procs' = [procs EXCEPT ![p] =
                    [L EXCEPT !.log = Append(L.log,
                                         Call("delete", txn_id, out, txn_id)),
                              !.rollback_failures =
                                  CollectRollbackFailure(L.rollback_failures,
                                                         txn_id, out),
                              !.rb = RollbackNext(L.rb, out)]]
             /\ ledger' \in LedgerAfterDelete(ledger, txn_id, out)
       /\ UNCHANGED nextKey
       /\ InstanceUnchanged

\* lines 188-194
ConcAtomicRaise(p) ==
    LET L == procs[p]
        ids == CreatedIdsOf(procs, p)
    IN /\ L.pc = "rollback"
       /\ L.rb > Len(ids)
       /\ procs' = [procs EXCEPT ![p] =
              [L EXCEPT !.raised = AtomicError(ids, L.rollback_failures, L.e),
                        !.pc = "done"]]
       /\ UNCHANGED <<ledger, nextKey>>
       /\ InstanceUnchanged

\* lines 196-202
ConcAtomicReturn(p) ==
    LET L == procs[p]
    IN /\ L.pc = "atomic_loop"
       /\ L.idx = L.transactions
       /\ procs' = [procs EXCEPT ![p] =
              [L EXCEPT !.returned = AtomicResult(L.created, L.transactions),
                        !.pc = "done"]]
       /\ UNCHANGED <<ledger, nextKey>>
       /\ InstanceUnchanged

\* lines 209-222: one iteration of the non-atomic loop of call p
ConcNonAtomicCreate(p, out) ==
    LET L == procs[p]
    IN /\ L.pc = "non_atomic_loop"
       /\ L.idx < L.transactions
       /\ out \in CreateOutcomes
       /\ IF out = "raise"
          THEN /\ procs' = [procs EXCEPT ![p] =
                    [L EXCEPT !.log = Append(L.log,
                                         Call("create", L.idx, out, None)),
                              !.failed = Append(L.failed,
                                             CreateFailure(L.idx, L.idx)),
                              !.idx = NonAtomicNext(L.idx, out)]]
               /\ UNCHANGED <<ledger, nextKey>>
          ELSE LET key == nextKey
                   result == TransactionOf(L.idx, key,
                                           IF out = "ok" THEN key ELSE None)
               IN /\ procs' = [procs EXCEPT ![p] =
                       [L EXCEPT !.log = Append(L.log,
                                            Call("create", L.idx, out, key)),
                                 !.successful = Append(L.successful, result),
                                 !.idx = NonAtomicNext(L.idx, out)]]
                  /\ ledger' = LedgerCreate(ledger, key)
                  /\ nextKey' = nextKey + 1
       /\ InstanceUnchanged

\* lines 224-233
ConcNonAtomicFinish(p) ==
    LET L == procs[p]
    IN /\ L.pc = "non_atomic_loop"
       /\ L.idx >= L.transactions
       /\ procs' = [procs EXCEPT ![p] =
              IF AllFailed(L.failed, L.transactions)
              THEN [L EXCEPT !.raised = TotalFailure("all_creates_failed",
                                                     L.transactions),
                             !.pc = "done"]
              ELSE [L EXCEPT !.returned =
                                 BulkResult("BulkCreateResult", L.successful,
                                            L.failed, L.transactions),
                             !.pc = "done"]]
       /\ UNCHANGED <<ledger, nextKey>>
       /\ InstanceUnchanged

\* lines 405-416: one iteration of the update loop of call p
ConcBulkUpdate(p, out) ==
    LET L == procs[p]
    IN /\ L.pc = "update_loop"
       /\ L.idx < Len(L.updates)
       /\ LET transaction_id == L.updates[L.idx + 1]
          IN /\ out \in UpdateAnswers(ledger, transaction_id)
             /\ procs' = [procs EXCEPT ![p] =
                  IF out = "raise"
                  THEN [L EXCEPT !.log = Append(L.log,
                                   Call("update", transaction_id, out, L.idx)),
                                 !.failed = Append(L.failed,
                                   UpdateFailure(L.idx, transaction_id,
                                                 L.idx)),
                                 !.idx = BulkUpdateNext(L.idx, out)]
                  ELSE [L EXCEPT !.log = Append(L.log,
                                   Call("update", transaction_id, out, L.idx)),
                                 !.successful = Append(L.successful,
                                   TransactionOf(L.idx, transaction_id,
                                                 transaction_id)),
                                 !.idx = BulkUpdateNext(L.idx, out)]]
       /\ UNCHANGED <<ledger, nextKey>>
       /\ InstanceUnchanged

\* lines 418-427
ConcBulkUpdateFinish(p) ==
    LET L == procs[p]
    IN /\ L.pc = "update_loop"
       /\ L.idx = Len(L.updates)
       /\ procs' = [procs EXCEPT ![p] =
              IF AllUpdatesFailed(L.failed, Len(L.updates))
              THEN [L EXCEPT !.raised = TotalFailure("all_updates_failed",
                                                     Len(L.updates)),
                             !.pc = "done"]
              ELSE [L EXCEPT !.returned =
                                 BulkResult("BulkUpdateResult", L.successful,
                                            L.failed, Len(L.updates)),
                             !.pc = "done"]]
       /\ UNCHANGED <<ledger, nextKey>>
       /\ InstanceUnchanged

ConcNext ==
    \/ \E p \in Procs, atomic \in BOOLEAN, n \in MinLength..ConcMaxN :
          ConcCreateBulk(p, atomic, n)
    \/ \E p \in Procs, req \in ConcUpdateRequests :
          ConcBulkUpdateStart(p, req)
    \/ \E p \in Procs, out \in CreateOutcomes : ConcAtomicCreate(p, out)
    \/ \E p \in Procs, out \in DeleteOutcomes : ConcRollbackDelete(p, out)
    \/ \E p \in Procs : ConcAtomicRaise(p)
    \/ \E p \in Procs : ConcAtomicReturn(p)
    \/ \E p \in Procs, out \in CreateOutcomes : ConcNonAtomicCreate(p, out)
    \/ \E p \in Procs : ConcNonAtomicFinish(p)
    \/ \E p \in Procs, out \in UpdateOutcomes : ConcBulkUpdate(p, out)
    \/ \E p \in Procs : ConcBulkUpdateFinish(p)

ConcurrentSpec == ConcInit /\ [][ConcNext]_vars

\* ======================================================================
\* Observations over the log of remote calls
\* ======================================================================
IsCreate(c) == c.op = "create"
IsDelete(c) == c.op = "delete"
IsUpdate(c) == c.op = "update"
Raised(c) == c.res = "raise"
Answered(c) == c.res # "raise"

Creates == SelectSeq(calls, IsCreate)
Deletes == SelectSeq(calls, IsDelete)
CreatesOk == SelectSeq(Creates, Answered)
CreatesFailed == SelectSeq(Creates, Raised)
DeletesFailed == SelectSeq(Deletes, Raised)

\* the request position of the first create call that raised
FirstFailedIndex == CreatesFailed[1].arg

AtomicEndedRaising == op = "atomic" /\ pc = "done" /\ raised.kind = "atomic"
AtomicEndedReturning ==
    op = "atomic" /\ pc = "done" /\ returned.kind = "BulkCreateResult"
NonAtomicEnded == op = "non_atomic" /\ pc = "done"
UpdateEnded == op = "update" /\ pc = "done"

\* ======================================================================
\* Claims
\* ======================================================================

C3_EveryRecordedIdDeletedOnce ==
    AtomicEndedRaising =>
        /\ Len(Deletes) = Len(created_ids)
        /\ \A k \in 1..Len(created_ids) :
              Cardinality({j \in 1..Len(calls) :
                  IsDelete(calls[j]) /\ calls[j].arg = created_ids[k]}) = 1
        /\ \A j \in 1..Len(CreatesOk) :
              CreatesOk[j].res = "ok" =>
                  \E k \in 1..Len(Deletes) : Deletes[k].arg = CreatesOk[j].key

\* C3 witness: a rollback of two ids whose first delete raised
C3_Witness ==
    /\ AtomicEndedRaising
    /\ Len(Deletes) >= 2
    /\ Raised(Deletes[1])

\* C4: a non-atomic bulk create of n items with k successful creates raises
\* if and only if k = 0; for k >= 1 it returns a result with
\* total_succeeded = k and total_failed = n - k.
C4_RaisesIffNoneSucceeded ==
    NonAtomicEnded =>
        LET n == transactions
            k == Len(CreatesOk)
        IN /\ (raised # NoError) <=> (k = 0)
           /\ (raised # NoError) <=> (returned = NoResult)
           /\ k >= 1 => /\ returned.kind = "BulkCreateResult"
                         /\ returned.total_succeeded = k
                         /\ returned.total_failed = n - k

\* C4 witness: some but not all creates succeeded and a result came back
C4_Witness ==
    /\ NonAtomicEnded
    /\ Len(CreatesOk) >= 1
    /\ Len(CreatesFailed) >= 1
    /\ returned.kind = "BulkCreateResult"

C6_ErrorReportsIndex ==
    AtomicEndedRaising =>
        /\ raised.rolled_back = FirstFailedIndex
        /\ raised.index = FirstFailedIndex
        /\ raised.cause = FirstFailedIndex

\* C7: the error raised after a rollback names every transaction id whose
\* delete failed, and lists no rollback failure when no delete failed.
C7_RollbackFailuresReported ==
    AtomicEndedRaising =>
        /\ Len(raised.rollback_failures) = Len(DeletesFailed)
        /\ \A j \in 1..Len(DeletesFailed) :
              raised.rollback_failures[j] = DeletesFailed[j].arg
        /\ (DeletesFailed = <<>>) => (raised.rollback_failures = <<>>)

\* C7 witness: a rollback in which one delete raised and another did not
C7_Witness ==
    /\ AtomicEndedRaising
    /\ Len(DeletesFailed) >= 1
    /\ Len(Deletes) > Len(DeletesFailed)
    /\ Len(raised.rollback_failures) >= 1

C9_ResultPartitionsPositions ==
    (NonAtomicEnded /\ returned # NoResult) =>
        /\ Len(returned.failed) = Len(CreatesFailed)
        /\ \A j \in 1..Len(CreatesFailed) :
              returned.failed[j].index = CreatesFailed[j].arg
        /\ Len(returned.successful) = Len(CreatesOk)
        /\ \A j \in 1..Len(CreatesOk) :
              /\ returned.successful[j].index = CreatesOk[j].arg
              /\ returned.successful[j].key = CreatesOk[j].key
        /\ {returned.failed[j].index : j \in 1..Len(returned.failed)}
             \cup {returned.successful[j].index :
                       j \in 1..Len(returned.successful)}
             = 0..(transactions - 1)

\* C9 witness: a result with two failed positions around a successful one
C9_Witness ==
    /\ NonAtomicEnded
    /\ Len(returned.failed) = 2
    /\ returned.failed[2].index = 2
    /\ Len(returned.successful) = 1
    /\ returned.successful[1].index = 1

\* C10: a non-atomic bulk create of n items issues exactly n create calls,
\* one per transaction in request order, going on after every failure, and
\* never a delete.
C10_NonAtomicCalls ==
    /\ op = "non_atomic" => \A j \in 1..Len(calls) :
                                IsCreate(calls[j]) /\ calls[j].arg = j - 1
    /\ NonAtomicEnded => Len(calls) = transactions

\* C10 witness: the first create failed and the later ones were still issued
C10_Witness ==
    /\ NonAtomicEnded
    /\ transactions >= 2
    /\ Raised(calls[1])
    /\ Len(calls) = transactions

\* C11: bulk_update_transactions issues exactly one update call per item of
\* the request, in request order, going on after any failure, and never a
\* compensating call (no delete, no second update of an item).
C11_OneUpdatePerItem ==
    /\ op = "update" =>
          /\ Len(calls) <= Len(updates)
          /\ \A j \in 1..Len(calls) :
                /\ IsUpdate(calls[j])
                /\ calls[j].arg = updates[j]
                /\ calls[j].key = j - 1
    /\ UpdateEnded => Len(calls) = Len(updates)

\* C11 witness: the first update failed and the later ones were still sent
C11_Witness ==
    /\ UpdateEnded
    /\ Len(updates) >= 2
    /\ Raised(calls[1])
    /\ Len(calls) = Len(updates)

\* C12: every BulkCreateResult or BulkUpdateResult returned has
\* total_succeeded = len(successful), total_failed = len(failed) and
\* total_succeeded + total_failed = total_requested = number of items.
C12_TotalsAgree ==
    returned.kind \in {"BulkCreateResult", "BulkUpdateResult"} =>
        /\ returned.total_succeeded = Len(returned.successful)
        /\ returned.total_failed = Len(returned.failed)
        /\ returned.total_succeeded + returned.total_failed
              = returned.total_requested
        /\ returned.total_requested =
              IF op = "update" THEN Len(updates) ELSE transactions

\* C12 witness: a result with both succeeded and failed items
C12_Witness ==
    /\ returned.kind \in {"BulkCreateResult", "BulkUpdateResult"}
    /\ returned.total_succeeded >= 1
    /\ returned.total_failed >= 1

\* C19: the client's bulk update stops at the first update that fails: it
\* raises 'Failed to update transaction <id>' for that update's id and
\* issues no update for any later item.
C19_ClientStopsAtFirstFailure ==
    op = "client_update" =>
        /\ \A j \in 1..Len(calls) :
              /\ IsUpdate(calls[j]) /\ calls[j].arg = updates[j]
              /\ Raised(calls[j]) =>
                    /\ j = Len(calls)
                    /\ pc = "done"
                    /\ raised.kind = "client_update_failed"
                    /\ raised.transaction_id = updates[j]
                    /\ raised.cause = j - 1
                    /\ returned = NoResult
        /\ (pc = "done" /\ raised = NoError) =>
              /\ Len(calls) = Len(updates)
              /\ \A j \in 1..Len(calls) : Answered(calls[j])

\* C19 witness: the first of several updates failed and nothing followed
C19_Witness ==
    /\ op = "client_update"
    /\ pc = "done"
    /\ Len(updates) >= 2
    /\ Len(calls) = 1
    /\ raised.transaction_id = updates[1]

\* C20: within one bulk operation at most one remote call is in flight; a
\* call is issued only after the previous one has been answered.
C20_OneCallInFlight ==
    /\ inflight <= 1
    /\ waiting <=> inflight = 1

\* C20 witness: a second call is in flight after the first was answered
C20_Witness ==
    /\ inflight = 1
    /\ Len(calls) >= 1

\* ------------------------------------------------ search: observations
\* a search whose query was compiled and handed to the ledger client
SearchSent == op = "search" /\ sent # Nothing

\* a filter field is present: it has a value, and a text is not empty
Present(opt) == opt # Nothing /\ (opt[1].t = "str" => opt[1].s # <<>>)

\* the name that starts the clause of a structured field
ClauseName(f) ==
    CASE f = "type" -> "type:"
      [] f = "amount_equals" -> "amount:"
      [] f = "amount_more" -> "more:"
      [] f = "amount_less" -> "less:"
      [] f = "category" -> "category_is:"
      [] f = "budget" -> "budget_is:"
      [] OTHER -> f \o ":"

\* one character of a text, escaped
EscapedChar(c) ==
    CASE c = "\\" -> <<"\\", "\\">>
      [] c = "\"" -> <<"\\", "\"">>
      [] OTHER -> <<c>>

RECURSIVE EscapedText(_)
EscapedText(value) ==
    IF value = <<>> THEN <<>>
    ELSE EscapedChar(Head(value)) \o EscapedText(Tail(value))

\* the sanitized form of a text as the specification describes it
SanitizedText(value) ==
    IF \E i \in 1..Len(value) : value[i] = " " \/ value[i] = "\""
                                 \/ value[i] = "'"
    THEN <<"\"">> \o EscapedText(value) \o <<"\"">>
    ELSE EscapedText(value)

\* the clause of a present field
ClauseOf(f, val) ==
    IF f = "query" THEN val.s
    ELSE IF f \in FreeText THEN <<ClauseName(f)>> \o SanitizedText(val.s)
    ELSE <<ClauseName(f)>> \o Format(val)

\* the clauses of the present fields from position i of the fixed order
\* on, separated by one space
RECURSIVE ClausesFrom(_, _)
ClausesFrom(i, fields) ==
    IF i > Len(FieldOrder) THEN <<>>
    ELSE LET f == FieldOrder[i]
             rest == ClausesFrom(i + 1, fields)
         IN IF ~Present(fields[f]) THEN rest
            ELSE IF rest = <<>> THEN ClauseOf(f, fields[f][1])
            ELSE ClauseOf(f, fields[f][1]) \o <<" ">> \o rest

\* C13: the query string search_transactions sends is the clauses of the
\* present fields, in the fixed order raw query, type, amount, more, less,
\* date_on, date_after, date_before, description_contains, category_is,
\* budget_is, account_contains, account_id, joined by exactly one space;
\* absent fields contribute nothing.
C13_QueryIsClausesInOrder ==
    SearchSent => sent[1].query = ClausesFrom(1, request[1].fields)

\* C13 witness: a search with every filter field present was sent
C13_Witness ==
    /\ SearchSent
    /\ \A f \in FieldSet : Present(request[1].fields[f])
    /\ Len(query_parts) = Len(FieldOrder)
    /\ Len(calls) = 1

C15_SanitizerOnlyOnFreeText ==
    SearchSent =>
        LET fields == request[1].fields
        IN /\ Present(fields["query"]) =>
                 query_parts[1] = fields["query"][1].s
           /\ \A f \in FieldSet \ (FreeText \cup {"query"}) :
                 Present(fields[f]) =>
                    \E i \in 1..Len(query_parts) :
                        query_parts[i]
                           = <<ClauseName(f)>> \o Format(fields[f][1])
           /\ \A f \in FreeText :
                 Present(fields[f]) =>
                    \E i \in 1..Len(query_parts) :
                        query_parts[i]
                           = <<ClauseName(f)>>
                                \o sanitize_value(fields[f][1].s)

\* C15 witness: a raw query with a space and a quote went out unchanged
\* next to a description filter that was quoted
C15_Witness ==
    /\ SearchSent
    /\ query_parts = << <<"a", " ", "\"">>,
                        <<"description_contains:", "\"", "a", " ", "\"">> >>
    /\ sent[1].query = <<"a", " ", "\"", " ", "description_contains:",
                         "\"", "a", " ", "\"">>

\* C16: a SearchTransactionsRequest in which no filter field is non-empty
\* is rejected with a validation error, also when the only field supplied
\* is an empty string.
C16_EmptyCriteriaRejected ==
    (op = "search" /\ request # Nothing
        /\ \A f \in FieldSet : ~Present(request[1].fields[f]))
    => (pc = "done" /\ raised.kind = "validation_error")

C23_TotalFailureCarriesContext ==
    (pc = "done"
        /\ raised.kind \in {"all_creates_failed", "all_updates_failed"})
    => /\ raised.cause # None
       /\ (raised.index # None \/ raised.transaction_id # None)

\* C26: an update request that carries budget_id = None makes
\* update_transaction send an update that clears the budget.
C26_NoneClearsBudget ==
    (op = "update_single" /\ sent # Nothing
        /\ request[1].fields["budget_id"] = Given(Nothing))
    => "budget_id" \in DOMAIN sent[1].body

\* C27: in an atomic rollback a compensating delete is counted as a
\* rollback failure if and only if the delete call raised; a delete that
\* the ledger answered with a success status other than 204 is not in the
\* failures and is counted among the transactions rolled back.
C27_FailureIffDeleteRaised ==
    AtomicEndedRaising =>
        /\ \A j \in 1..Len(Deletes) :
              (\E k \in 1..Len(raised.rollback_failures) :
                    raised.rollback_failures[k] = Deletes[j].arg)
              <=> Deletes[j].res = "raise"
        /\ raised.rolled_back
              >= Cardinality({j \in 1..Len(Deletes) :
                                 Deletes[j].res = "ok_other"})
        /\ Len(raised.rollback_failures)
              = Cardinality({j \in 1..Len(Deletes) :
                                Deletes[j].res = "raise"})

\* C27 witness: a rollback whose only delete was answered with a success
\* status other than 204: no rollback failure, one transaction reported
\* as rolled back, and the transaction still on the ledger
C27_Witness ==
    /\ AtomicEndedRaising
    /\ Len(Deletes) = 1
    /\ Deletes[1].res = "ok_other"
    /\ raised.rollback_failures = <<>>
    /\ raised.rolled_back = 1
    /\ Deletes[1].arg \in ledger

\* C28: search_transactions never sends an empty query string: every
\* request accepted by validation compiles to at least one clause.
C28_QueryNeverEmpty ==
    SearchSent => (sent[1].query # <<>> /\ Len(query_parts) >= 1)

\* the number of backslashes that stand directly before position i
RECURSIVE BackslashesBefore(_, _)
BackslashesBefore(text, i) ==
    IF i <= 1 \/ text[i - 1] # "\\" THEN 0
    ELSE 1 + BackslashesBefore(text, i - 1)

\* a text between two double quotes in which every double quote has an
\* odd number of backslashes directly before it
OneQuotedToken(text) ==
    /\ Len(text) >= 2
    /\ text[1] = "\""
    /\ text[Len(text)] = "\""
    /\ \A i \in 2..Len(text) :
          text[i] = "\"" =>
              BackslashesBefore(text, i) % 2 = (IF i = Len(text) THEN 0 ELSE 1)

\* C29: a free-text filter value never splits into more than one token of
\* the compiled query: whenever it contains a whitespace character (space,
\* tab, newline) or a quote, its sanitized form is wrapped in double quotes
\* and every double quote inside is escaped by an unescaped backslash.
C29_OneTokenPerValue ==
    SearchSent =>
        \A f \in FreeText :
            LET fld == request[1].fields[f]
            IN (Present(fld)
                 /\ \E j \in 1..Len(fld[1].s) :
                        fld[1].s[j] \in {" ", "\t", "\n", "\"", "'"})
               => \E i \in 1..Len(query_parts) :
                     /\ Head(query_parts[i]) = ClauseName(f)
                     /\ OneQuotedToken(Tail(query_parts[i]))

\* an atomic bulk create was cancelled while a create call was in flight
CancelledInCreateLoop ==
    /\ op = "atomic"
    /\ \E j \in 1..Len(calls) :
          calls[j].op = "create" /\ calls[j].res = "cancelled"

\* C21: if an atomic bulk create is cancelled while its create loop is
\* running, no compensating delete is issued and the transactions already
\* created by that call remain on the ledger.
C21_CancelLeavesCreated ==
    CancelledInCreateLoop =>
        /\ pc = "cancelled"
        /\ raised.kind = "cancelled"
        /\ Deletes = <<>>
        /\ \A j \in 1..Len(Creates) :
              Creates[j].key # None => Creates[j].key \in ledger
        /\ \A j \in 1..Len(created) : created[j].key \in ledger

\* C21 witness: cancelled in the third create of three, after two
\* transactions were created; both are still on the ledger
C21_Witness ==
    /\ CancelledInCreateLoop
    /\ pc = "cancelled"
    /\ Len(created) = 2
    /\ Len(created_ids) = 2
    /\ Len(calls) = 3
    /\ \A j \in 1..2 : created[j].key \in ledger

\* the calls of one kind in the log are all for different items
NoRetry(log) ==
    \A i, j \in 1..Len(log) : i # j => log[i].arg # log[j].arg

\* the bulk operation is over and the remote calls it made are within
\* the bound of its kind
CompletedWithinBound ==
    /\ pc \in {"done", "cancelled"}
    /\ ~waiting
    /\ pc = "done" => (returned.kind # "none" \/ raised.kind # "none")
    /\ op = "atomic" =>
          /\ Len(Creates) <= transactions
          /\ Len(Deletes) <= transactions - 1
          /\ Len(calls) = Len(Creates) + Len(Deletes)
          /\ NoRetry(Creates)
          /\ NoRetry(Deletes)
          /\ \A i, j \in 1..Len(calls) :
                (calls[i].op = "delete" /\ calls[j].op = "create") => j < i
    /\ op = "non_atomic" =>
          /\ Len(calls) = Len(Creates)
          /\ NoRetry(Creates)
          /\ IF pc = "done" THEN Len(Creates) = transactions
                            ELSE Len(Creates) <= transactions
    /\ op = "update" =>
          /\ \A i, j \in 1..Len(calls) :
                i # j => calls[i].key # calls[j].key
          /\ \A j \in 1..Len(calls) : calls[j].op = "update"
          /\ IF pc = "done" THEN Len(calls) = Len(updates)
                            ELSE Len(calls) <= Len(updates)

\* C30: provided every remote call is answered, each bulk operation comes
\* to its end (returns or raises) after a bounded number of remote calls
\* and without retrying a call: at most n creates followed by at most n-1
\* deletes for an atomic create of n items, exactly n creates for a
\* non-atomic one, exactly n updates for a bulk update.
C30_BulkOperationCompletes ==
    (op \in {"atomic", "non_atomic", "update"}) ~> CompletedWithinBound

\* C30 witness: an atomic create of three items ended after three creates
\* and two deletes
C30_Witness ==
    /\ op = "atomic"
    /\ pc = "done"
    /\ transactions = 3
    /\ Len(Creates) = 3
    /\ Len(Deletes) = 2
    /\ CompletedWithinBound

\* ======================================================================
\* the type/reference invariant of what the creates send
\* ======================================================================

\* a withdrawal has a source id, a deposit a destination id, a transfer both
TypeReferenceOk(trx) ==
    CASE trx.type = "withdrawal" -> trx.source_id # Nothing
      [] trx.type = "deposit" -> trx.destination_id # Nothing
      [] OTHER -> trx.source_id # Nothing /\ trx.destination_id # Nothing

\* C24: every transaction a create operation, single or bulk, has sent to
\* the ledger has the account ids its type asks for.
C24_SentSatisfiesTypeReference ==
    \A k \in 1..Len(stores) : TypeReferenceOk(stores[k])

\* the same for the single creates alone
SingleCreatesSatisfyTypeReference ==
    op = "create" => \A k \in 1..Len(stores) : TypeReferenceOk(stores[k])

\* a single create has sent its transaction
SingleCreateSent == op = "create" /\ Len(stores) = 1

\* ======================================================================
\* the HTTP requests of one client method
\* ======================================================================

\* the operations that are methods of FireflyClient
ClientOps == {"client_update", "client_create", "client_budget_spending"}

\* C25: one invocation of a method of the ledger client sends exactly one
\* HTTP request, so a method that has ended has sent one, and none sends
\* more than one.
C25_OneRequestPerClientCall ==
    op \in ClientOps =>
        /\ Len(calls) + inflight <= 1
        /\ pc = "done" => Len(calls) = 1

\* ======================================================================
\* two concurrent bulk calls
\* ======================================================================

\* what a call got back from the ledger, read from its own log
OwnTransactions(log) ==
    LET answered == SelectSeq(log, LAMBDA c : IsCreate(c) /\ Answered(c))
    IN [j \in 1..Len(answered) |->
           TransactionOf(answered[j].arg, answered[j].key,
                         IF answered[j].res = "ok" THEN answered[j].key
                                                    ELSE None)]

OwnIds(log) ==
    LET named == SelectSeq(log, LAMBDA c : IsCreate(c) /\ c.res = "ok")
    IN [j \in 1..Len(named) |-> named[j].key]

OwnCreateFailures(log) ==
    LET bad == SelectSeq(log, LAMBDA c : IsCreate(c) /\ Raised(c))
    IN [j \in 1..Len(bad) |-> BulkOperationError(bad[j].arg, None, bad[j].arg)]

OwnDeleteFailures(log) ==
    LET bad == SelectSeq(log, LAMBDA c : IsDelete(c) /\ Raised(c))
    IN [j \in 1..Len(bad) |-> bad[j].arg]

OwnUpdated(log) ==
    LET good == SelectSeq(log, LAMBDA c : IsUpdate(c) /\ Answered(c))
    IN [j \in 1..Len(good) |->
           TransactionOf(good[j].key, good[j].arg, good[j].arg)]

OwnUpdateFailures(log) ==
    LET bad == SelectSeq(log, LAMBDA c : IsUpdate(c) /\ Raised(c))
    IN [j \in 1..Len(bad) |->
           BulkOperationError(bad[j].key, bad[j].arg, bad[j].key)]

\* the outcome <<returned, raised>> of a call as a function of its request
\* (kind, length) and of the answers to its own remote calls
OutcomeOf(kind, n, log) ==
    CASE kind = "atomic" ->
           IF \E j \in 1..Len(log) : IsCreate(log[j]) /\ Raised(log[j])
           THEN <<NoResult,
                  [kind |-> "atomic", index |-> Len(OwnIds(log)),
                   rolled_back |-> Len(OwnIds(log)),
                   cause |-> Len(OwnTransactions(log)),
                   rollback_failures |-> OwnDeleteFailures(log),
                   total |-> None, transaction_id |-> None]>>
           ELSE <<[kind |-> "BulkCreateResult",
                   successful |-> OwnTransactions(log), failed |-> <<>>,
                   total_requested |-> n,
                   total_succeeded |-> Len(OwnTransactions(log)),
                   total_failed |-> 0],
                  NoError>>
      [] kind = "non_atomic" ->
           IF Len(OwnTransactions(log)) = 0
           THEN <<NoResult,
                  [kind |-> "all_creates_failed", index |-> None,
                   rolled_back |-> None, cause |-> None,
                   rollback_failures |-> <<>>, total |-> n,
                   transaction_id |-> None]>>
           ELSE <<[kind |-> "BulkCreateResult",
                   successful |-> OwnTransactions(log),
                   failed |-> OwnCreateFailures(log),
                   total_requested |-> n,
                   total_succeeded |-> Len(OwnTransactions(log)),
                   total_failed |-> Len(OwnCreateFailures(log))],
                  NoError>>
      [] OTHER ->
           IF Len(OwnUpdated(log)) = 0
           THEN <<NoResult,
                  [kind |-> "all_updates_failed", index |-> None,
                   rolled_back |-> None, cause |-> None,
                   rollback_failures |-> <<>>, total |-> n,
                   transaction_id |-> None]>>
           ELSE <<[kind |-> "BulkUpdateResult",
                   successful |-> OwnUpdated(log),
                   failed |-> OwnUpdateFailures(log),
                   total_requested |-> n,
                   total_succeeded |-> Len(OwnUpdated(log)),
                   total_failed |-> Len(OwnUpdateFailures(log))],
                  NoError>>

\* the length of the request of a call
RequestLength(L) ==
    IF L.op = "update" THEN Len(L.updates) ELSE L.transactions

\* every delete of the log names an id an earlier create of the same log
\* was answered with
DeletesOnlyOwn(log) ==
    \A j \in 1..Len(log) :
        IsDelete(log[j]) =>
            \E i \in 1..(j - 1) :
                /\ IsCreate(log[i])
                /\ log[i].res = "ok"
                /\ log[i].key = log[j].arg

\* C22: with two bulk calls interleaved on one service, the outcome of each
\* call that has ended is the one its own request and its own answers
\* determine, each call sends no more calls than its request has items
\* (plus its own rollback), and a rollback deletes only ids that the same
\* call was answered with.
C22_NoInterference ==
    \A p \in DOMAIN procs :
        LET L == procs[p]
        IN /\ DeletesOnlyOwn(L.log)
           /\ Len(SelectSeq(L.log, LAMBDA c : ~IsDelete(c)))
                  <= RequestLength(L)
           /\ L.pc = "done" =>
                  <<L.returned, L.raised>>
                      = OutcomeOf(L.op, RequestLength(L), L.log)

\* call 1 is atomic, created key 1 and rolled it back after its second
\* create raised; call 2 created keys 2 and 3 in between and returned them
C22_Witness ==
    /\ DOMAIN procs = Procs
    /\ procs[1].pc = "done"
    /\ procs[2].pc = "done"
    /\ procs[1].op = "atomic"
    /\ procs[2].op = "atomic"
    /\ procs[1].raised.kind = "atomic"
    /\ procs[1].log = <<Call("create", 0, "ok", 1),
                        Call("create", 1, "raise", None),
                        Call("delete", 1, "ok204", 1)>>
    /\ OwnIds(procs[2].log) = <<2, 3>>
    /\ procs[2].returned.total_succeeded = 2
    /\ 1 \notin ledger
    /\ {2, 3} \subseteq ledger

====
